---- MODULE Spec2Model ----
(***************************************************************************)
(* Component-lending tracker: the dual-backend data layer.                 *)
(*   DS_*  : DataService        (src/src/services/dataService.ts)          *)
(*   FB_*  : FirebaseService    (src/src/services/firebaseService.ts)      *)
(*   H_*   : HybridDataService  (src/src/services/hybridDataService.ts)    *)
(*   Login, Register, Logout, Reload : AuthContext (src/src/context)       *)
(* Entities keep the fields the lending flows read or write; free-text     *)
(* fields (name, description, userAgent ...) are left out.  A value that   *)
(* may be null/undefined is a sequence of length 0 or 1.                   *)
(***************************************************************************)
EXTENDS Integers, Sequences, FiniteSets, TLC

\* ------------------------------------------------------------------ bounds
\* The clock (Date.now()) ticks once per caller-level operation; no operation
\* starts once it has reached MaxClock.
MaxClock == 3

\* --------------------------------------------------------------- constants
AdminEmail == "admin@issacasimov.in"
StudentEmail == "student@lab"
Emails == {AdminEmail, StudentEmail}
DefaultAdminPassword == "ralab"
\* Passwords a caller can type; "" is the empty string (falsy in JavaScript).
Passwords == {"ralab", "secret1", ""}
\* The passwords an account is given: one the remote authentication service
\* accepts, and for a change of password also the empty one.
RegisterPasswords == {"secret1"}
ChangedPasswords == {"secret1", ""}
\* A key that is absent from the stored password map (undefined).
NoPassword == "<undefined>"

\* Identifiers: <<kind, n>>.  'admin-1', 'comp-1', 'user-<Date.now()>',
\* 'session-<Date.now()>-<random>', 'notif-<Date.now()>', and <<"fb", n>> for an
\* id the remote store generated.  NoId: the document carries no id field.
NoId == <<"none", 0>>
AdminId == <<"admin", 1>>
CompId == <<"comp", 1>>
SeedQuantity == 25

Null == <<>>
Some(x) == <<x>>
IsSome(o) == o # <<>>
Val(o) == o[1]

\* Array.prototype.findIndex: the first index that satisfies Test, 0 for -1.
FindIndex(seq, Test(_)) ==
  LET hits == {i \in 1..Len(seq) : Test(seq[i])}
  IN IF hits = {} THEN 0 ELSE CHOOSE i \in hits : \A j \in hits : i <= j

\* Array.prototype.find
Find(seq, Test(_)) ==
  LET i == FindIndex(seq, Test) IN IF i = 0 THEN Null ELSE Some(seq[i])

RECURSIVE Reverse(_)
Reverse(seq) ==
  IF seq = <<>> THEN <<>> ELSE Append(Reverse(Tail(seq)), Head(seq))

RECURSIVE MapSeq(_, _)
MapSeq(F(_), seq) ==
  IF seq = <<>> THEN <<>> ELSE <<F(Head(seq))>> \o MapSeq(F, Tail(seq))

RECURSIVE SumSeq(_, _)
SumSeq(F(_), seq) ==
  IF seq = <<>> THEN 0 ELSE F(Head(seq)) + SumSeq(F, Tail(seq))

\* ------------------------------------------------------------------- state
VARIABLES
  isOnline,      \* HybridDataService.isOnline
  useFirebase,   \* HybridDataService.useFirebase (the spec's remoteEnabled)
  lsData,        \* localStorage['isaacLabData']: [tag, val]
  lsPasswords,   \* localStorage['isaacLabPasswords']: email -> password
  lsCurrentUser, \* localStorage['currentUser'] (the session marker)
  lsLastSync,    \* localStorage['lastFirebaseSync']: 0 when absent
  user,          \* AuthContext state `user`
  fb,            \* the remote store: collections, auth accounts, next doc id
  now,           \* Date.now()
  task,          \* the background task of the service: [pc]
  last,          \* the operation that returned last, and what it returned
  registered     \* history: the emails for which register() has returned true

vars == <<isOnline, useFirebase, lsData, lsPasswords, lsCurrentUser, lsLastSync,
          user, fb, now, task, last, registered>>

\* ------------------------------------------------------------ DataService
DefaultAdmin ==
  [id |-> AdminId, email |-> AdminEmail, role |-> "admin",
   loginCount |-> 0, isActive |-> FALSE, lastLoginAt |-> 0]

DefaultComponent ==
  [id |-> CompId, totalQuantity |-> SeedQuantity, availableQuantity |-> SeedQuantity]

getDefaultData ==
  [users |-> <<DefaultAdmin>>, components |-> <<DefaultComponent>>,
   requests |-> <<>>, notifications |-> <<>>, loginSessions |-> <<>>]

\* getData without its try/catch: the exception of JSON.parse escapes.
DS_getDataCall_uncaught(ls) ==
  IF ls.tag = "ok" THEN [ret |-> ls.val, threw |-> FALSE]
  ELSE IF ls.tag = "corrupt" THEN [ret |-> Null, threw |-> TRUE]
  ELSE [ret |-> getDefaultData, threw |-> FALSE]

\* ls is the stored item: tag "none" (no item), "corrupt" (JSON.parse throws)
\* or "ok" (val is the parsed snapshot).  A call of getData: the parsed
\* snapshot is returned inside the try block; with no item, or after the catch
\* block has logged the exception of JSON.parse, the default data is returned.
DS_getDataCall(ls) ==
  IF ls.tag = "ok" THEN [ret |-> ls.val, threw |-> FALSE]
  ELSE IF ls.tag = "corrupt" THEN [ret |-> getDefaultData, threw |-> FALSE]
  ELSE [ret |-> getDefaultData, threw |-> FALSE]

DS_getData(ls) == DS_getDataCall(ls).ret

DS_saveData(data) == [tag |-> "ok", val |-> data]

DS_setUserPassword(pw, email, password) == [pw EXCEPT ![email] = password]

DS_verifyPassword(pw, email, password) == pw[email] = password

\* addUser overwrites loginCount and isActive on the object it is given.
DS_addUser(ls, u) ==
  LET data == DS_getData(ls)
      u2 == [u EXCEPT !.loginCount = 0, !.isActive = FALSE]
  IN [ls |-> DS_saveData([data EXCEPT !.users = Append(@, u2)]), user |-> u2]

DS_updateUser(ls, u) ==
  LET data == DS_getData(ls)
      SameId(x) == x.id = u.id
      index == FindIndex(data.users, SameId)
  IN IF index # 0 THEN DS_saveData([data EXCEPT !.users[index] = u]) ELSE ls

DS_getUser(ls, email) ==
  LET HasEmail(x) == x.email = email IN Find(DS_getData(ls).users, HasEmail)

DS_createLoginSession(ls, u, t) ==
  LET session == [id |-> <<"session", t>>, userId |-> u.id, userEmail |-> u.email,
                  loginTime |-> t, logoutTime |-> 0, sessionDuration |-> 0,
                  isActive |-> TRUE]
      data == DS_getData(ls)
  IN [ls |-> DS_saveData([data EXCEPT !.loginSessions = Append(@, session)]),
      session |-> session]

\* endLoginSession without the isActive test of its filter: every session of
\* the user is stamped again.
DS_endLoginSession_all(ls, userId, t) ==
  LET data == DS_getData(ls)
      Close(s) == IF s.userId = userId
                  THEN [s EXCEPT !.logoutTime = t, !.isActive = FALSE,
                                 !.sessionDuration = t - s.loginTime]
                  ELSE s
      Deactivate(u) == IF u.id = userId THEN [u EXCEPT !.isActive = FALSE] ELSE u
  IN DS_saveData([data EXCEPT !.loginSessions = MapSeq(Close, @),
                              !.users = MapSeq(Deactivate, @)])

DS_endLoginSession(ls, userId, t) ==
  LET data == DS_getData(ls)
      Close(s) == IF s.userId = userId /\ s.isActive
                  THEN [s EXCEPT !.logoutTime = t, !.isActive = FALSE,
                                 !.sessionDuration = t - s.loginTime]
                  ELSE s
      Deactivate(x) == IF x.id = userId THEN [x EXCEPT !.isActive = FALSE] ELSE x
      IsUser(x) == x.id = userId
      i == FindIndex(data.users, IsUser)
  IN DS_saveData([data EXCEPT
       !.loginSessions = MapSeq(Close, @),
       !.users = IF i = 0 THEN @ ELSE [@ EXCEPT ![i] = Deactivate(@)]])

\* The password the admin branch compares with: passwords[email] || 'ralab'.
AdminPassword(pw) ==
  IF pw[AdminEmail] = NoPassword \/ pw[AdminEmail] = ""
  THEN DefaultAdminPassword ELSE pw[AdminEmail]

\* Returns [ls, pw, ret]: the stored item, the password map and User | null.
DS_authenticateUser(ls, pw, email, password, t) ==
  LET found == DS_getUser(ls, email)
      rejected == IF email = AdminEmail
                  THEN password # AdminPassword(pw)
                  ELSE ~IsSome(found) \/ ~DS_verifyPassword(pw, email, password)
      createAdmin == email = AdminEmail /\ ~IsSome(found)
      added == DS_addUser(ls, [DefaultAdmin EXCEPT !.isActive = TRUE])
      ls1 == IF createAdmin THEN added.ls ELSE ls
      pw1 == IF createAdmin
             THEN DS_setUserPassword(pw, email, DefaultAdminPassword) ELSE pw
      u0 == IF createAdmin THEN added.user ELSE Val(found)
      u1 == [u0 EXCEPT !.lastLoginAt = t, !.loginCount = @ + 1, !.isActive = TRUE]
      ls2 == DS_updateUser(ls1, u1)
      ls3 == DS_createLoginSession(ls2, u1, t).ls
  IN IF rejected THEN [ls |-> ls, pw |-> pw, ret |-> Null]
     ELSE [ls |-> ls3, pw |-> pw1, ret |-> Some(u1)]

DS_getComponents(ls) == DS_getData(ls).components

DS_updateComponent(ls, c) ==
  LET data == DS_getData(ls)
      SameId(x) == x.id = c.id
      index == FindIndex(data.components, SameId)
  IN IF index # 0 THEN DS_saveData([data EXCEPT !.components[index] = c]) ELSE ls

DS_addComponent(ls, c) ==
  LET data == DS_getData(ls)
  IN DS_saveData([data EXCEPT !.components = Append(@, c)])

DS_addRequest(ls, r) ==
  LET data == DS_getData(ls)
  IN DS_saveData([data EXCEPT !.requests = Append(@, r)])

DS_updateRequest(ls, r) ==
  LET data == DS_getData(ls)
      SameId(x) == x.id = r.id
      index == FindIndex(data.requests, SameId)
  IN IF index # 0 THEN DS_saveData([data EXCEPT !.requests[index] = r]) ELSE ls

DS_getRequests(ls) == DS_getData(ls).requests

DS_getUserRequests(ls, userId) ==
  LET Mine(r) == r.studentId = userId IN SelectSeq(DS_getData(ls).requests, Mine)

DS_addNotification(ls, n) ==
  LET data == DS_getData(ls)
  IN DS_saveData([data EXCEPT !.notifications = Append(@, n)])

DS_getUserNotifications(ls, userId) ==
  LET Mine(n) == n.userId = userId
  IN SelectSeq(DS_getData(ls).notifications, Mine)

DS_markNotificationAsRead(ls, notificationId) ==
  LET data == DS_getData(ls)
      SameId(n) == n.id = notificationId
      i == FindIndex(data.notifications, SameId)
  IN IF i # 0 THEN DS_saveData([data EXCEPT !.notifications[i].read = TRUE]) ELSE ls

\* getSystemStats: the counters the session flows are read through.
DS_getSystemStats(ls) ==
  LET data == DS_getData(ls)
      Active(x) == x.isActive
      Logins(x) == x.loginCount
  IN [totalUsers |-> Len(data.users),
      activeUsers |-> Len(SelectSeq(data.users, Active)),
      totalLogins |-> SumSeq(Logins, data.users),
      onlineUsers |-> Len(SelectSeq(data.loginSessions, Active))]

\* A helper built on getData: what escapes getData escapes the helper.
DS_getLoginSessions(ls) ==
  LET data == DS_getDataCall(ls)
  IN IF data.threw THEN data ELSE [ret |-> data.ret.loginSessions, threw |-> FALSE]

\* Math.round(n / d) for d > 0: halves go up.
MathRound(n, d) == (2 * n + d) \div (2 * d)

MsPerMinute == 60000

\* The header row and one row of the export.  userName, userRole and
\* deviceInfo are not part of the modelled session: their cells are empty.
CsvHeaders ==
  <<"Login Time", "Logout Time", "User Name", "User Email", "Role", "Device Info",
    "Session Duration (minutes)", "Status">>

CsvRow(session) ==
  <<ToString(session.loginTime),
    IF session.logoutTime # 0 THEN ToString(session.logoutTime) ELSE "Active",
    "",
    session.userEmail,
    "",
    "",
    IF session.sessionDuration # 0
    THEN ToString(MathRound(session.sessionDuration, MsPerMinute))
    ELSE "Active",
    IF session.isActive THEN "Active" ELSE "Ended">>

\* exportLoginSessionsCSV: the lines of the text, the header first.
DS_exportLoginSessionsCSV(ls) ==
  LET sessions == DS_getLoginSessions(ls)
  IN IF sessions.threw THEN sessions
     ELSE [ret |-> <<CsvHeaders>> \o MapSeq(CsvRow, sessions.ret), threw |-> FALSE]

\* -------------------------------------------------------- FirebaseService
\* A stored document is [doc, data]: the generated document id and the fields
\* written.  Collections are kept in creation order (createdAt).
\* Every method returns [ok, fb, ret]; ok = FALSE is a rejected promise.

\* { id: doc.id, ...doc.data() }: an id field inside the data wins.
FbRead(d) == IF d.data.id = NoId THEN [d.data EXCEPT !.id = d.doc] ELSE d.data

FbDocs(coll) == MapSeq(FbRead, coll)

\* addDoc(collection, {...entity, createdAt}) -> docRef.id
FbAddDoc(store, coll, entity) ==
  LET id == <<"fb", store.next>>
  IN [ok |-> TRUE,
      fb |-> [store EXCEPT ![coll] = Append(@, [doc |-> id, data |-> entity]),
                           !.next = @ + 1],
      ret |-> id]

\* updateDoc(doc(db, coll, id), fields): rejects when the document is missing.
FbUpdateDoc(store, coll, id, Change(_)) ==
  LET IsDoc(d) == d.doc = id
      i == FindIndex(store[coll], IsDoc)
  IN IF i = 0
     THEN [ok |-> FALSE, fb |-> store, ret |-> Null]
     ELSE [ok |-> TRUE,
           fb |-> [store EXCEPT ![coll][i].data = Change(@)],
           ret |-> Null]

\* The remote authentication service refuses passwords under six characters.
WeakPassword(password) == password \in {"", "ralab"}

FB_signIn(store, email, password) ==
  [ok |-> store.auth[email] # NoPassword /\ store.auth[email] = password,
   fb |-> store, ret |-> Null]

FB_signUp(store, email, password) ==
  IF store.auth[email] # NoPassword \/ WeakPassword(password)
  THEN [ok |-> FALSE, fb |-> store, ret |-> Null]
  ELSE [ok |-> TRUE, fb |-> [store EXCEPT !.auth[email] = password], ret |-> Null]

FB_createUser(store, u) == FbAddDoc(store, "users", u)

FB_getUserByEmail(store, email) ==
  LET HasEmail(d) == d.data.email = email
      hit == Find(store.users, HasEmail)
  IN [ok |-> TRUE, fb |-> store,
      ret |-> IF IsSome(hit) THEN Some(FbRead(Val(hit))) ELSE Null]

FB_updateUser(store, userId, userData) ==
  LET Put(old) == userData IN FbUpdateDoc(store, "users", userId, Put)

FB_getAllUsers(store) == FbDocs(store.users)

FB_createComponent(store, c) == FbAddDoc(store, "components", c)

FB_updateComponent(store, componentId, componentData) ==
  LET Put(old) == componentData
  IN FbUpdateDoc(store, "components", componentId, Put)

FB_getAllComponents(store) == FbDocs(store.components)

FB_createRequest(store, r) == FbAddDoc(store, "requests", r)

FB_updateRequest(store, requestId, requestData) ==
  LET Put(old) == requestData IN FbUpdateDoc(store, "requests", requestId, Put)

\* orderBy('createdAt', 'desc')
FB_getAllRequests(store) == Reverse(FbDocs(store.requests))

FB_getUserRequests(store, userId) ==
  LET Mine(r) == r.studentId = userId
  IN SelectSeq(Reverse(FbDocs(store.requests)), Mine)

FB_createNotification(store, n) == FbAddDoc(store, "notifications", n)

FB_getUserNotifications(store, userId) ==
  LET Mine(n) == n.userId = userId
  IN SelectSeq(Reverse(FbDocs(store.notifications)), Mine)

FB_markNotificationAsRead(store, notificationId) ==
  LET Read(old) == [old EXCEPT !.read = TRUE]
  IN FbUpdateDoc(store, "notifications", notificationId, Read)

FB_createLoginSession(store, session) == FbAddDoc(store, "loginSessions", session)

FB_updateLoginSession(store, sessionId, t, duration) ==
  LET Close(old) == [old EXCEPT !.isActive = FALSE, !.logoutTime = t,
                                !.sessionDuration = duration]
  IN FbUpdateDoc(store, "loginSessions", sessionId, Close)

FB_getAllLoginSessions(store) == Reverse(FbDocs(store.loginSessions))

\* The seed set of initializeDefaultData: <<totalQuantity>> per component.
SeedComponents == <<25, 15, 20, 30, 12>>

\* initializeDefaultData: one batch holding the admin user (when no user has
\* the admin email) and the seed components (when there are no components);
\* batch.commit() writes all of it or nothing.
RECURSIVE SeedComponentDocs(_, _)
SeedComponentDocs(quantities, n) ==
  IF quantities = <<>> THEN <<>>
  ELSE <<[doc |-> <<"fb", n>>,
          data |-> [id |-> <<"fb", n>>, totalQuantity |-> Head(quantities),
                    availableQuantity |-> Head(quantities)]]>>
       \o SeedComponentDocs(Tail(quantities), n + 1)

\* initializeDefaultData without its two presence checks.
FB_initializeDefaultData_unchecked(store) ==
  LET adminDoc == [doc |-> <<"fb", store.next>>,
                   data |-> [DefaultAdmin EXCEPT !.id = NoId]]
      s1 == [store EXCEPT !.users = Append(@, adminDoc), !.next = @ + 1]
  IN [s1 EXCEPT !.components = @ \o SeedComponentDocs(SeedComponents, s1.next),
                !.next = @ + Len(SeedComponents)]

FB_initializeDefaultData(store) ==
  LET needAdmin == ~IsSome(FB_getUserByEmail(store, AdminEmail).ret)
      needComponents == Len(FB_getAllComponents(store)) = 0
      adminDoc == [doc |-> <<"fb", store.next>>,
                   data |-> [DefaultAdmin EXCEPT !.id = NoId]]
      s1 == IF needAdmin
            THEN [store EXCEPT !.users = Append(@, adminDoc), !.next = @ + 1]
            ELSE store
      s2 == IF needComponents
            THEN [s1 EXCEPT !.components = SeedComponentDocs(SeedComponents, s1.next),
                            !.next = @ + Len(SeedComponents)]
            ELSE s1
  IN s2

\* syncToLocal, first half: the five collections as fetched.
FB_fetchAll(store) ==
  [users |-> FB_getAllUsers(store),
   components |-> FB_getAllComponents(store),
   requests |-> FB_getAllRequests(store),
   notifications |-> FbDocs(store.notifications),
   loginSessions |-> FB_getAllLoginSessions(store)]

FbEmpty ==
  [users |-> <<>>, components |-> <<>>, requests |-> <<>>, notifications |-> <<>>,
   loginSessions |-> <<>>, auth |-> [e \in Emails |-> NoPassword], next |-> 1]

\* ------------------------------------------------------ HybridDataService
\* A method runs on st = [ls, pw, fb] (the stored snapshot, the stored password
\* map, the remote store) and yields an outcome:
\*   st       the stores when it ended
\*   ret      what it returned (or, for a write, the entity it was given, as
\*            it left it)
\*   threw    an exception escaped
\*   failed   a remote call was rejected
\*   remote   ret is the remote store's answer
\*   returned a return statement inside the try block ran
\* rem is `this.isOnline && this.useFirebase` as the method reads it; fa is the
\* position (1, 2, ...) of the remote call the network fails, 0 for none.
Returned(st, ret, remote) ==
  [st |-> st, ret |-> ret, threw |-> FALSE, failed |-> FALSE,
   remote |-> remote, returned |-> TRUE]

Thrown(st, ret) ==
  [st |-> st, ret |-> ret, threw |-> TRUE, failed |-> TRUE,
   remote |-> FALSE, returned |-> FALSE]

FellThrough(st, ret) ==
  [st |-> st, ret |-> ret, threw |-> FALSE, failed |-> FALSE,
   remote |-> FALSE, returned |-> FALSE]

\* A try block without its catch: the exception goes on to the caller.
Catch_rethrow(tried, recovered) == tried

\* try { tried } catch (error) { console.error(...); recovered }
Catch(tried, recovered) ==
  IF tried.threw THEN [recovered EXCEPT !.threw = FALSE, !.failed = TRUE] ELSE tried

\* A read that ends with its try/catch: there is no local read after it.
Then_noFallback(outcome, rest) == outcome

\* The statement after a try/catch whose try block may have returned.
Then(outcome, rest) ==
  IF outcome.threw \/ outcome.returned THEN outcome
  ELSE [rest EXCEPT !.failed = outcome.failed]

H_addUser(st, rem, u, fa) ==
  LET created == FB_createUser(st.fb, u)
      withId == [u EXCEPT !.id = created.ret]
      tried ==
        IF rem /\ fa = 1 THEN Thrown(st, u)
        ELSE IF rem
        THEN LET a == DS_addUser(st.ls, withId)
             IN Returned([st EXCEPT !.fb = created.fb, !.ls = a.ls], a.user, FALSE)
        ELSE LET a == DS_addUser(st.ls, u)
             IN Returned([st EXCEPT !.ls = a.ls], a.user, FALSE)
      fallback == LET a == DS_addUser(st.ls, u)
                  IN Returned([st EXCEPT !.ls = a.ls], a.user, FALSE)
  IN Catch(tried, fallback)

H_updateUser(st, rem, u, fa) ==
  LET updated == FB_updateUser(st.fb, u.id, u)
      tried ==
        IF rem /\ (fa = 1 \/ ~updated.ok) THEN Thrown(st, u)
        ELSE IF rem
        THEN Returned([st EXCEPT !.fb = updated.fb, !.ls = DS_updateUser(st.ls, u)],
                      u, FALSE)
        ELSE Returned([st EXCEPT !.ls = DS_updateUser(st.ls, u)], u, FALSE)
      fallback == Returned([st EXCEPT !.ls = DS_updateUser(st.ls, u)], u, FALSE)
  IN Catch(tried, fallback)

H_getUser(st, rem, email, fa) ==
  LET got == FB_getUserByEmail(st.fb, email)
      tried ==
        IF rem /\ fa = 1 THEN Thrown(st, Null)
        ELSE IF rem /\ IsSome(got.ret) THEN Returned(st, got.ret, TRUE)
        ELSE FellThrough(st, Null)
  IN Then(Catch(tried, FellThrough(st, Null)),
          Returned(st, DS_getUser(st.ls, email), FALSE))

\* An authenticateUser that takes the remote profile without the sign-in.
H_authenticateUser_profileOnly(st, rem, email, password, t, fa) ==
  LET userData == FB_getUserByEmail(st.fb, email).ret
      local == DS_authenticateUser(st.ls, st.pw, email, password, t)
  IN IF rem /\ IsSome(userData)
     THEN Returned([st EXCEPT !.ls = DS_updateUser(st.ls, Val(userData))],
                   userData, TRUE)
     ELSE Returned([st EXCEPT !.ls = local.ls, !.pw = local.pw], local.ret, FALSE)

H_authenticateUser(st, rem, email, password, t, fa) ==
  LET signedIn == FB_signIn(st.fb, email, password)
      userData == FB_getUserByEmail(st.fb, email).ret
      tried ==
        IF rem /\ (fa = 1 \/ ~signedIn.ok) THEN Thrown(st, Null)
        ELSE IF rem /\ fa = 2 THEN Thrown(st, Null)
        ELSE IF rem /\ IsSome(userData)
        THEN Returned([st EXCEPT !.ls = DS_updateUser(st.ls, Val(userData))],
                      userData, TRUE)
        ELSE FellThrough(st, Null)
      local == DS_authenticateUser(st.ls, st.pw, email, password, t)
  IN Then(Catch(tried, FellThrough(st, Null)),
          Returned([st EXCEPT !.ls = local.ls, !.pw = local.pw], local.ret, FALSE))

\* A read that appends the local records to the remote ones.
H_getComponents_merged(st, rem, fa) ==
  LET firebaseComponents == FB_getAllComponents(st.fb)
  IN IF rem /\ fa # 1 /\ Len(firebaseComponents) > 0
     THEN Returned(st, firebaseComponents \o DS_getComponents(st.ls), TRUE)
     ELSE [Returned(st, DS_getComponents(st.ls), FALSE)
             EXCEPT !.failed = rem /\ fa = 1]

H_getComponents(st, rem, fa) ==
  LET firebaseComponents == FB_getAllComponents(st.fb)
      tried ==
        IF rem /\ fa = 1 THEN Thrown(st, <<>>)
        ELSE IF rem /\ Len(firebaseComponents) > 0
        THEN Returned(st, firebaseComponents, TRUE)
        ELSE FellThrough(st, <<>>)
  IN Then(Catch(tried, FellThrough(st, <<>>)),
          Returned(st, DS_getComponents(st.ls), FALSE))

H_updateComponent(st, rem, c, fa) ==
  LET updated == FB_updateComponent(st.fb, c.id, c)
      tried ==
        IF rem /\ (fa = 1 \/ ~updated.ok) THEN Thrown(st, c)
        ELSE IF rem
        THEN Returned([st EXCEPT !.fb = updated.fb,
                                 !.ls = DS_updateComponent(st.ls, c)], c, FALSE)
        ELSE Returned([st EXCEPT !.ls = DS_updateComponent(st.ls, c)], c, FALSE)
      fallback == Returned([st EXCEPT !.ls = DS_updateComponent(st.ls, c)], c, FALSE)
  IN Catch(tried, fallback)

H_addComponent(st, rem, c, fa) ==
  LET created == FB_createComponent(st.fb, c)
      withId == [c EXCEPT !.id = created.ret]
      tried ==
        IF rem /\ fa = 1 THEN Thrown(st, c)
        ELSE IF rem
        THEN Returned([st EXCEPT !.fb = created.fb,
                                 !.ls = DS_addComponent(st.ls, withId)], withId, FALSE)
        ELSE Returned([st EXCEPT !.ls = DS_addComponent(st.ls, c)], c, FALSE)
      fallback == Returned([st EXCEPT !.ls = DS_addComponent(st.ls, c)], c, FALSE)
  IN Catch(tried, fallback)

\* An addRequest that writes to Local Store before the remote create: the
\* catch block then writes a second time.
H_addRequest_writesFirst(st, rem, r, fa) ==
  LET written == [st EXCEPT !.ls = DS_addRequest(st.ls, r)]
      created == FB_createRequest(st.fb, r)
      tried ==
        IF rem /\ fa = 1 THEN Thrown(written, r)
        ELSE IF rem THEN Returned([written EXCEPT !.fb = created.fb], r, FALSE)
        ELSE Returned(written, r, FALSE)
      fallback == Returned([written EXCEPT !.ls = DS_addRequest(written.ls, r)],
                           r, FALSE)
  IN Catch(tried, fallback)

H_addRequest(st, rem, r, fa) ==
  LET created == FB_createRequest(st.fb, r)
      withId == [r EXCEPT !.id = created.ret]
      tried ==
        IF rem /\ fa = 1 THEN Thrown(st, r)
        ELSE IF rem
        THEN Returned([st EXCEPT !.fb = created.fb,
                                 !.ls = DS_addRequest(st.ls, withId)], withId, FALSE)
        ELSE Returned([st EXCEPT !.ls = DS_addRequest(st.ls, r)], r, FALSE)
      fallback == Returned([st EXCEPT !.ls = DS_addRequest(st.ls, r)], r, FALSE)
  IN Catch(tried, fallback)

H_updateRequest(st, rem, r, fa) ==
  LET updated == FB_updateRequest(st.fb, r.id, r)
      tried ==
        IF rem /\ (fa = 1 \/ ~updated.ok) THEN Thrown(st, r)
        ELSE IF rem
        THEN Returned([st EXCEPT !.fb = updated.fb,
                                 !.ls = DS_updateRequest(st.ls, r)], r, FALSE)
        ELSE Returned([st EXCEPT !.ls = DS_updateRequest(st.ls, r)], r, FALSE)
      fallback == Returned([st EXCEPT !.ls = DS_updateRequest(st.ls, r)], r, FALSE)
  IN Catch(tried, fallback)

H_getRequests(st, rem, fa) ==
  LET firebaseRequests == FB_getAllRequests(st.fb)
      tried ==
        IF rem /\ fa = 1 THEN Thrown(st, <<>>)
        ELSE IF rem /\ Len(firebaseRequests) > 0
        THEN Returned(st, firebaseRequests, TRUE)
        ELSE FellThrough(st, <<>>)
  IN Then(Catch(tried, FellThrough(st, <<>>)),
          Returned(st, DS_getRequests(st.ls), FALSE))

H_getUserRequests(st, rem, userId, fa) ==
  LET firebaseRequests == FB_getUserRequests(st.fb, userId)
      tried ==
        IF rem /\ fa = 1 THEN Thrown(st, <<>>)
        ELSE IF rem /\ Len(firebaseRequests) > 0
        THEN Returned(st, firebaseRequests, TRUE)
        ELSE FellThrough(st, <<>>)
  IN Then(Catch(tried, FellThrough(st, <<>>)),
          Returned(st, DS_getUserRequests(st.ls, userId), FALSE))

H_addNotification(st, rem, n, fa) ==
  LET created == FB_createNotification(st.fb, n)
      withId == [n EXCEPT !.id = created.ret]
      tried ==
        IF rem /\ fa = 1 THEN Thrown(st, n)
        ELSE IF rem
        THEN Returned([st EXCEPT !.fb = created.fb,
                                 !.ls = DS_addNotification(st.ls, withId)],
                      withId, FALSE)
        ELSE Returned([st EXCEPT !.ls = DS_addNotification(st.ls, n)], n, FALSE)
      fallback == Returned([st EXCEPT !.ls = DS_addNotification(st.ls, n)], n, FALSE)
  IN Catch(tried, fallback)

H_getUserNotifications(st, rem, userId, fa) ==
  LET firebaseNotifications == FB_getUserNotifications(st.fb, userId)
      tried ==
        IF rem /\ fa = 1 THEN Thrown(st, <<>>)
        ELSE IF rem /\ Len(firebaseNotifications) > 0
        THEN Returned(st, firebaseNotifications, TRUE)
        ELSE FellThrough(st, <<>>)
  IN Then(Catch(tried, FellThrough(st, <<>>)),
          Returned(st, DS_getUserNotifications(st.ls, userId), FALSE))

H_markNotificationAsRead(st, rem, notificationId, fa) ==
  LET marked == FB_markNotificationAsRead(st.fb, notificationId)
      local == DS_markNotificationAsRead(st.ls, notificationId)
      tried ==
        IF rem /\ (fa = 1 \/ ~marked.ok) THEN Thrown(st, notificationId)
        ELSE IF rem
        THEN Returned([st EXCEPT !.fb = marked.fb, !.ls = local], notificationId, FALSE)
        ELSE Returned([st EXCEPT !.ls = local], notificationId, FALSE)
  IN Catch(tried, Returned([st EXCEPT !.ls = local], notificationId, FALSE))

\* The session is stored locally first; the remote id is then written on the
\* returned object only.
H_createLoginSession(st, rem, u, t, fa) ==
  LET made == DS_createLoginSession(st.ls, u, t)
      st1 == [st EXCEPT !.ls = made.ls]
      created == FB_createLoginSession(st.fb, made.session)
      tried ==
        IF rem /\ fa = 1 THEN Thrown(st1, made.session)
        ELSE IF rem
        THEN FellThrough([st1 EXCEPT !.fb = created.fb],
                         [made.session EXCEPT !.id = created.ret])
        ELSE FellThrough(st1, made.session)
      after == Catch(tried, FellThrough(st1, made.session))
  IN Then(after, Returned(after.st, after.ret, FALSE))

\* The for loop of endLoginSession over the user's active remote sessions:
\* call number k is the next updateLoginSession.  Yields [ok, fb].
RECURSIVE EndRemoteSessions(_, _, _, _, _)
EndRemoteSessions(store, sessions, t, k, fa) ==
  IF sessions = <<>> THEN [ok |-> TRUE, fb |-> store]
  ELSE LET s == Head(sessions)
           updated == FB_updateLoginSession(store, s.id, t, t - s.loginTime)
       IN IF fa = k \/ ~updated.ok THEN [ok |-> FALSE, fb |-> store]
          ELSE EndRemoteSessions(updated.fb, Tail(sessions), t, k + 1, fa)

\* An endLoginSession whose catch block only logs.
H_endLoginSession_remoteFirst(st, rem, userId, t, fa) ==
  LET Mine(s) == s.userId = userId /\ s.isActive
      userSessions == SelectSeq(FB_getAllLoginSessions(st.fb), Mine)
      ended == EndRemoteSessions(st.fb, userSessions, t, 2, fa)
  IN IF rem /\ (fa = 1 \/ ~ended.ok)
     THEN [Returned(st, userId, FALSE) EXCEPT !.failed = TRUE]
     ELSE Returned([st EXCEPT !.fb = IF rem THEN ended.fb ELSE @,
                              !.ls = DS_endLoginSession(st.ls, userId, t)],
                   userId, FALSE)

H_endLoginSession(st, rem, userId, t, fa) ==
  LET Mine(s) == s.userId = userId /\ s.isActive
      userSessions == SelectSeq(FB_getAllLoginSessions(st.fb), Mine)
      ended == EndRemoteSessions(st.fb, userSessions, t, 2, fa)
      st1 == [st EXCEPT !.fb = ended.fb]
      tried ==
        IF rem /\ fa = 1 THEN Thrown(st, userId)
        ELSE IF rem /\ ~ended.ok THEN Thrown(st1, userId)
        ELSE IF rem
        THEN Returned([st1 EXCEPT !.ls = DS_endLoginSession(st.ls, userId, t)],
                      userId, FALSE)
        ELSE Returned([st EXCEPT !.ls = DS_endLoginSession(st.ls, userId, t)],
                      userId, FALSE)
  IN Catch(tried,
           Returned([tried.st EXCEPT !.ls = DS_endLoginSession(st.ls, userId, t)],
                    userId, FALSE))

\* ------------------------------------------------------------ the program
St == [ls |-> lsData, pw |-> lsPasswords, fb |-> fb]

\* this.isOnline && this.useFirebase
Rem == isOnline /\ useFirebase

\* The remote calls of one method that the network may fail: 0 is none.
Fail(n) == IF Rem THEN 0..n ELSE {0}

Store(st) == /\ lsData' = st.ls
             /\ lsPasswords' = st.pw
             /\ fb' = st.fb

NoUser == [DefaultAdmin EXCEPT !.id = NoId]
NoMarker == [tag |-> "none", val |-> NoUser]
Marker(u) == [tag |-> "ok", val |-> u]

\* The background task of the service: pc "init" while initializeFirebase has
\* not finished, "idle" otherwise.
IdleTask == [pc |-> "idle"]
TaskAt(pc) == [pc |-> pc]

\* What the operation that returned last was given and gave back.
Op(name, email, id, ok, o) ==
  [op |-> name, email |-> email, password |-> "", id |-> id, ok |-> ok,
   ret |-> o.ret, threw |-> o.threw, failed |-> o.failed, remote |-> o.remote,
   attempts |-> 0]

\* The outcome of a step that calls no method of the facade.
Quiet == [ret |-> Null, threw |-> FALSE, failed |-> FALSE, remote |-> FALSE]

NoOp == Op("none", "", NoId, FALSE, Quiet)

\* A flow of several awaited calls: a call that threw ends the flow.
AndThen(prev, next) == IF prev.threw THEN prev ELSE next

\* new HybridDataService(): initializeFirebase() starts, and reads isOnline
\* before its first await.
StartInit(online) == IF online THEN TaskAt("init") ELSE IdleTask

Init ==
  /\ isOnline \in BOOLEAN
  /\ useFirebase = TRUE
  /\ lsData = [tag |-> "none", val |-> getDefaultData]
  /\ lsPasswords = [e \in Emails |-> NoPassword]
  /\ lsCurrentUser = NoMarker
  /\ lsLastSync = 0
  /\ user = Null
  /\ fb \in {FbEmpty, FB_initializeDefaultData(FbEmpty)}
  /\ now = 1
  /\ task = StartInit(isOnline)
  /\ last = NoOp
  /\ registered = {}

\* ---- HybridDataService: connectivity listeners, initializeFirebase, sync
\* A syncToLocal that keeps the local users the remote store does not have.
FB_syncToLocal_merging(store, ls, lastSync, t, ok) ==
  LET fetched == FB_fetchAll(store)
      OnlyLocal(u) == \A i \in DOMAIN fetched.users : fetched.users[i].email # u.email
      merged == [fetched EXCEPT !.users = @ \o SelectSeq(DS_getData(ls).users, OnlyLocal)]
  IN IF ok THEN [ok |-> TRUE, ls |-> DS_saveData(merged), lastSync |-> t]
     ELSE [ok |-> FALSE, ls |-> ls, lastSync |-> lastSync]

\* A syncToLocal that stores each collection as its fetch is answered: when a
\* later fetch is rejected, the users are already stored.
FB_syncToLocal_partial(store, ls, lastSync, t, ok) ==
  IF ok THEN [ok |-> TRUE, ls |-> DS_saveData(FB_fetchAll(store)), lastSync |-> t]
  ELSE [ok |-> FALSE,
        ls |-> DS_saveData([DS_getData(ls) EXCEPT !.users = FB_getAllUsers(store)]),
        lastSync |-> lastSync]

\* syncToLocal: the five fetches, then the two localStorage.setItem calls.
\* Yields [ok, ls, lastSync]; a failed fetch writes nothing.
FB_syncToLocal(store, ls, lastSync, t, ok) ==
  IF ok THEN [ok |-> TRUE, ls |-> DS_saveData(FB_fetchAll(store)), lastSync |-> t]
  ELSE [ok |-> FALSE, ls |-> ls, lastSync |-> lastSync]

\* A syncWhenOnline that gives the remote store up when the sync fails, as
\* initializeFirebase does.
H_syncWhenOnline_givesUp(store, ls, lastSync, online, enabled, t, ok) ==
  LET synced == FB_syncToLocal(store, ls, lastSync, t, ok)
  IN IF online /\ enabled
     THEN [attempts |-> 1, ls |-> synced.ls, lastSync |-> synced.lastSync,
           enabled |-> synced.ok, threw |-> FALSE, failed |-> ~synced.ok]
     ELSE [attempts |-> 0, ls |-> ls, lastSync |-> lastSync,
           enabled |-> enabled, threw |-> FALSE, failed |-> FALSE]

\* A syncWhenOnline that tries the remote store again after it was given up,
\* and takes it back when the sync succeeds.
H_syncWhenOnline_reenables(store, ls, lastSync, online, enabled, t, ok) ==
  LET synced == FB_syncToLocal(store, ls, lastSync, t, ok)
  IN IF online
     THEN [attempts |-> 1, ls |-> synced.ls, lastSync |-> synced.lastSync,
           enabled |-> enabled \/ synced.ok, threw |-> FALSE, failed |-> ~synced.ok]
     ELSE [attempts |-> 0, ls |-> ls, lastSync |-> lastSync,
           enabled |-> enabled, threw |-> FALSE, failed |-> FALSE]

\* syncWhenOnline: syncToLocal when isOnline && useFirebase; a failure is
\* logged.  Yields [attempts, ls, lastSync, enabled, threw, failed]: attempts
\* counts the calls of syncToLocal, enabled is useFirebase when it ends.
H_syncWhenOnline(store, ls, lastSync, online, enabled, t, ok) ==
  LET synced == FB_syncToLocal(store, ls, lastSync, t, ok)
  IN IF online /\ enabled
     THEN [attempts |-> 1, ls |-> synced.ls, lastSync |-> synced.lastSync,
           enabled |-> enabled, threw |-> FALSE, failed |-> ~synced.ok]
     ELSE [attempts |-> 0, ls |-> ls, lastSync |-> lastSync,
           enabled |-> enabled, threw |-> FALSE, failed |-> FALSE]

\* window 'online': isOnline = true; syncWhenOnline().
GoOnline ==
  /\ ~isOnline
  /\ isOnline' = TRUE
  /\ \E ok \in BOOLEAN :
       LET o == H_syncWhenOnline(fb, lsData, lsLastSync, TRUE, useFirebase, now, ok)
       IN /\ useFirebase \/ ok
          /\ lsData' = o.ls
          /\ lsLastSync' = o.lastSync
          /\ useFirebase' = o.enabled
          /\ last' = [Op("online", "", NoId, ~o.failed, Quiet)
                        EXCEPT !.threw = o.threw, !.failed = o.failed,
                               !.attempts = o.attempts]
  /\ UNCHANGED <<lsPasswords, lsCurrentUser, user, fb, now, task, registered>>

\* window 'offline'
GoOffline ==
  /\ isOnline
  /\ isOnline' = FALSE
  /\ last' = Op("offline", "", NoId, TRUE, Quiet)
  /\ UNCHANGED <<useFirebase, lsData, lsPasswords, lsCurrentUser, lsLastSync, user,
                 fb, now, task, registered>>

\* initializeFirebase, started by the constructor while online:
\* initializeDefaultData(), then syncToLocal(); a failure of either sets
\* useFirebase = false.  down = 1: the seeding fails, 2: the sync fails,
\* 3: neither.
InitializeFirebase(down) ==
  /\ task.pc = "init"
  /\ task' = IdleTask
  /\ LET seeded == IF down > 1 THEN FB_initializeDefaultData(fb) ELSE fb
         synced == FB_syncToLocal(seeded, lsData, lsLastSync, now, down > 2)
     IN /\ fb' = seeded
        /\ lsData' = IF down > 1 THEN synced.ls ELSE lsData
        /\ lsLastSync' = IF down > 1 THEN synced.lastSync ELSE lsLastSync
        /\ useFirebase' = IF down > 2 THEN useFirebase ELSE FALSE
        /\ last' = [Op("initializeFirebase", "", NoId, down > 2, Quiet)
                      EXCEPT !.failed = down <= 2]
  /\ UNCHANGED <<isOnline, lsPasswords, lsCurrentUser, user, now, registered>>

\* ---- AuthContext
\* A flow of several remote calls loses the network at call `down` and does
\* not get it back before it ends: call i is failed when i >= down.
FailFrom(down, i) == IF i >= down THEN 1 ELSE 0

\* A page reload: the service is constructed again (useFirebase = true,
\* initializeFirebase starts) and AuthProvider's mount effect restores the
\* session marker and marks its user active.  localStorage and the remote
\* store stay.
Reload ==
  /\ task' = StartInit(isOnline)
  /\ useFirebase' = TRUE
  /\ \E down \in IF isOnline THEN 1..3 ELSE {3} :
       LET rem == isOnline
           f1 == FailFrom(down, 1)
           f2 == FailFrom(down, 2)
           parsedUser == lsCurrentUser.val
           got == H_getUser(St, rem, parsedUser.email, f1)
           systemUser == [Val(got.ret) EXCEPT !.isActive = TRUE]
           o == IF IsSome(got.ret)
                THEN AndThen(got, H_updateUser(got.st, rem, systemUser, f2))
                ELSE got
       IN CASE lsCurrentUser.tag = "none" ->
                 /\ user' = Null
                 /\ last' = Op("reload", "", NoId, FALSE, Quiet)
                 /\ UNCHANGED <<lsData, lsPasswords, fb, lsCurrentUser>>
            [] lsCurrentUser.tag = "corrupt" ->
                 /\ user' = Null
                 /\ last' = Op("reload", "", NoId, FALSE, Quiet)
                 /\ lsCurrentUser' = NoMarker
                 /\ UNCHANGED <<lsData, lsPasswords, fb>>
            [] lsCurrentUser.tag = "ok" ->
                 /\ user' = Some(parsedUser)
                 /\ Store(o.st)
                 /\ lsCurrentUser' = IF o.threw THEN NoMarker ELSE lsCurrentUser
                 /\ last' = Op("reload", parsedUser.email, parsedUser.id,
                               IsSome(got.ret), o)
  /\ UNCHANGED <<isOnline, lsLastSync, now, registered>>

Login(email, password) ==
  /\ now < MaxClock
  /\ \E fa \in Fail(2) :
       LET o == H_authenticateUser(St, Rem, email, password, now, fa)
           authenticatedUser == o.ret
           ok == ~o.threw /\ IsSome(authenticatedUser)
       IN /\ Store(o.st)
          /\ user' = IF ok THEN authenticatedUser ELSE user
          /\ lsCurrentUser' = IF ok THEN Marker(Val(authenticatedUser))
                              ELSE lsCurrentUser
          /\ now' = now + 1
          /\ last' = [Op("login", email, IF ok THEN Val(authenticatedUser).id ELSE NoId,
                         ok, o) EXCEPT !.password = password]
  /\ UNCHANGED <<isOnline, useFirebase, lsLastSync, task, registered>>

\* The record register builds before it saves it.
NewUser(email, t) ==
  [id |-> <<"user", t>>, email |-> email, role |-> "student",
   loginCount |-> 1, isActive |-> TRUE, lastLoginAt |-> t]

WelcomeNotification(userId, t) ==
  [id |-> <<"notif", t>>, userId |-> userId, read |-> FALSE]

Register(email, password) ==
  /\ now < MaxClock
  /\ \E down \in IF Rem THEN 1..6 ELSE IF isOnline THEN {2, 6} ELSE {2} :
       LET f1 == FailFrom(down, 1)
           signUpOk == down > 2
           f3 == FailFrom(down, 3)
           f4 == FailFrom(down, 4)
           f5 == FailFrom(down, 5)
           existingUser == H_getUser(St, Rem, email, f1)
           signedUp == FB_signUp(St.fb, email, password)
           st1 == IF signUpOk /\ signedUp.ok THEN [St EXCEPT !.fb = signedUp.fb]
                  ELSE St
           added == H_addUser(st1, Rem, NewUser(email, now), f3)
           newUser == added.ret
           session == AndThen(added,
                              H_createLoginSession(added.st, Rem, newUser, now, f4))
           st2 == [session.st EXCEPT
                     !.pw = DS_setUserPassword(@, email, password)]
           notified == AndThen(session,
                         H_addNotification(st2, Rem,
                                           WelcomeNotification(newUser.id, now), f5))
           stored == ~session.threw
           ok == ~notified.threw
       IN IF existingUser.threw \/ IsSome(existingUser.ret)
          THEN /\ last' = [Op("register", email, NoId, FALSE, existingUser)
                             EXCEPT !.password = password, !.ret = Null]
               /\ now' = now + 1
               /\ UNCHANGED <<lsData, lsPasswords, fb, user, lsCurrentUser,
                              registered>>
          ELSE /\ Store(IF stored THEN notified.st ELSE session.st)
               /\ user' = IF stored THEN Some(newUser) ELSE user
               /\ lsCurrentUser' = IF stored THEN Marker(newUser) ELSE lsCurrentUser
               /\ now' = now + 1
               /\ last' = [Op("register", email, newUser.id, ok, notified)
                             EXCEPT !.password = password, !.ret = Some(newUser),
                                    !.failed = added.failed \/ notified.failed]
               /\ registered' = IF ok THEN registered \cup {email} ELSE registered
  /\ UNCHANGED <<isOnline, useFirebase, lsLastSync, task>>

\* logout: endLoginSession for the current user, sign out, clear the marker.
Logout ==
  /\ now < MaxClock
  /\ user' = Null
  /\ lsCurrentUser' = NoMarker
  /\ now' = now + 1
  /\ IF IsSome(user)
     THEN \E fa \in Fail(3) :
            LET o == H_endLoginSession(St, Rem, Val(user).id, now, fa)
            IN /\ Store(o.st)
               /\ last' = Op("logout", Val(user).email, Val(user).id, TRUE, o)
     ELSE /\ last' = Op("logout", "", NoId, FALSE, Quiet)
          /\ UNCHANGED <<lsData, lsPasswords, fb>>
  /\ UNCHANGED <<isOnline, useFirebase, lsLastSync, task, registered>>

\* hybridDataService.setUserPassword(email, password)
SetUserPassword(email, password) ==
  /\ now < MaxClock
  /\ lsPasswords' = DS_setUserPassword(lsPasswords, email, password)
  /\ now' = now + 1
  /\ last' = [Op("setUserPassword", email, NoId, TRUE, Quiet)
                EXCEPT !.password = password]
  /\ UNCHANGED <<isOnline, useFirebase, lsData, lsCurrentUser, lsLastSync, user, fb,
                 task, registered>>

\* ---- the screens: direct calls of the facade
Statuses == {"pending", "approved", "rejected", "returned"}

Background ==
  <<isOnline, useFirebase, lsCurrentUser, lsLastSync, user, task, registered>>

\* The ids of the users this client knows: the callers' userId arguments.
UserIds == {DS_getData(lsData).users[i].id : i \in DOMAIN DS_getData(lsData).users}

\* A read leaves the stores as they are; `last` keeps what it returned.
Read(name, email, id, o) ==
  /\ now < MaxClock
  /\ now' = now + 1
  /\ last' = Op(name, email, id, ~o.threw, o)
  /\ UNCHANGED <<lsData, lsPasswords, fb>>
  /\ UNCHANGED Background

\* A write stores its outcome and the clock moves on.
Write(name, id, o) ==
  /\ now < MaxClock
  /\ Store(o.st)
  /\ now' = now + 1
  /\ last' = Op(name, "", id, ~o.threw, o)
  /\ UNCHANGED Background

GetUser(email) ==
  \E fa \in Fail(1) : Read("getUser", email, NoId, H_getUser(St, Rem, email, fa))

GetComponents ==
  \E fa \in Fail(1) : Read("getComponents", "", NoId, H_getComponents(St, Rem, fa))

GetRequests ==
  \E fa \in Fail(1) : Read("getRequests", "", NoId, H_getRequests(St, Rem, fa))

GetUserRequests(userId) ==
  \E fa \in Fail(1) :
    Read("getUserRequests", "", userId, H_getUserRequests(St, Rem, userId, fa))

GetUserNotifications(userId) ==
  \E fa \in Fail(1) :
    Read("getUserNotifications", "", userId,
         H_getUserNotifications(St, Rem, userId, fa))

\* An admin edit of a user the facade returned.
UpdateUser(email) ==
  \E f1 \in Fail(1), fa \in Fail(1), active \in BOOLEAN :
    LET got == H_getUser(St, Rem, email, f1)
        edited == [Val(got.ret) EXCEPT !.isActive = active]
    IN /\ ~got.threw /\ IsSome(got.ret)
       /\ Write("updateUser", edited.id, H_updateUser(St, Rem, edited, fa))

\* addUser(user) for an email Local Store has no user of.
AddUser(email) ==
  /\ ~IsSome(DS_getUser(lsData, email))
  /\ \E fa \in Fail(1) :
       LET o == H_addUser(St, Rem, NewUser(email, now), fa)
       IN Write("addUser", o.ret.id, o)

NewComponent(t) ==
  [id |-> <<"comp", t>>, totalQuantity |-> 1, availableQuantity |-> 1]

AddComponent ==
  \E fa \in Fail(1) :
    Write("addComponent", NewComponent(now).id,
          H_addComponent(St, Rem, NewComponent(now), fa))

\* A component of the list the screen shows is lent out or taken back.
UpdateComponent ==
  \E f1 \in Fail(1), fa \in Fail(1) :
    LET shown == H_getComponents(St, Rem, f1)
    IN /\ ~shown.threw
       /\ \E i \in DOMAIN shown.ret, lent \in BOOLEAN :
            LET q == IF lent THEN 0 ELSE shown.ret[i].totalQuantity
                c == [shown.ret[i] EXCEPT !.availableQuantity = q]
            IN /\ c # shown.ret[i]
               /\ Write("updateComponent", c.id, H_updateComponent(St, Rem, c, fa))

NewRequest(studentId, t) ==
  [id |-> <<"req", t>>, studentId |-> studentId, status |-> "pending"]

AddRequest(userId) ==
  \E fa \in Fail(1) :
    Write("addRequest", NewRequest(userId, now).id,
          H_addRequest(St, Rem, NewRequest(userId, now), fa))

UpdateRequest ==
  \E f1 \in Fail(1), fa \in Fail(1) :
    LET shown == H_getRequests(St, Rem, f1)
    IN /\ ~shown.threw
       /\ \E i \in DOMAIN shown.ret, status \in Statuses :
            LET r == [shown.ret[i] EXCEPT !.status = status]
            IN /\ r # shown.ret[i]
               /\ Write("updateRequest", r.id, H_updateRequest(St, Rem, r, fa))

AddNotification(userId) ==
  \E fa \in Fail(1) :
    Write("addNotification", WelcomeNotification(userId, now).id,
          H_addNotification(St, Rem, WelcomeNotification(userId, now), fa))

MarkNotificationAsRead(userId) ==
  \E f1 \in Fail(1), fa \in Fail(1) :
    LET shown == H_getUserNotifications(St, Rem, userId, f1)
    IN /\ ~shown.threw
       /\ \E i \in DOMAIN shown.ret :
            Write("markNotificationAsRead", shown.ret[i].id,
                  H_markNotificationAsRead(St, Rem, shown.ret[i].id, fa))

\* ---- the session calls of the facade, endLoginSession await by await
\* createLoginSession(user) for a user Local Store holds.
CreateLoginSession ==
  \E fa \in Fail(1), i \in DOMAIN DS_getData(lsData).users :
    LET o == H_createLoginSession(St, Rem, DS_getData(lsData).users[i], now, fa)
    IN Write("createLoginSession", o.ret.id, o)

\* An endLoginSession that is between two awaits: pc "fetching" while
\* getAllLoginSessions is awaited, "updating" while the updateLoginSession of
\* the first of `sessions` is awaited.
EndingTask(pc, userId, sessions) ==
  [pc |-> pc, userId |-> userId, sessions |-> sessions]

\* `last` after a step of endLoginSession: op names the remote call the step
\* issued, or is "endLoginSession" when the step ended the method.
EndStep(name, userId, failed) ==
  [Op(name, "", userId, TRUE, Quiet) EXCEPT !.failed = failed]

\* dataService.endLoginSession(userId), in the try block or in the catch
\* block: the method ends.
EndLocally(userId, failed) ==
  /\ lsData' = DS_endLoginSession(lsData, userId, now)
  /\ task' = IdleTask
  /\ last' = EndStep("endLoginSession", userId, failed)

\* endLoginSession(userId) is called: `isOnline && useFirebase` is read once,
\* and getAllLoginSessions is issued when it holds.
BeginEndLoginSession(userId) ==
  /\ now < MaxClock
  /\ task.pc = "idle"
  /\ now' = now + 1
  /\ IF Rem
     THEN /\ task' = EndingTask("fetching", userId, <<>>)
          /\ last' = EndStep("getAllLoginSessions", userId, FALSE)
          /\ UNCHANGED lsData
     ELSE EndLocally(userId, FALSE)
  /\ UNCHANGED <<isOnline, useFirebase, lsPasswords, lsCurrentUser, lsLastSync, user,
                 fb, registered>>

\* getAllLoginSessions settles: rejected, the catch block ends the method;
\* resolved, the loop issues updateLoginSession for the first active session
\* of the user, or there is none and the method ends.
AfterGetAllLoginSessions ==
  /\ task.pc = "fetching"
  /\ \E ok \in BOOLEAN :
       LET Mine(s) == s.userId = task.userId /\ s.isActive
           userSessions == SelectSeq(FB_getAllLoginSessions(fb), Mine)
       IN IF ~ok THEN EndLocally(task.userId, TRUE)
          ELSE IF userSessions = <<>> THEN EndLocally(task.userId, FALSE)
          ELSE /\ task' = EndingTask("updating", task.userId, userSessions)
               /\ last' = EndStep("updateLoginSession", task.userId, FALSE)
               /\ UNCHANGED lsData
  /\ UNCHANGED <<isOnline, useFirebase, lsPasswords, lsCurrentUser, lsLastSync, user,
                 fb, now, registered>>

\* updateLoginSession of the first session settles: rejected, the catch block
\* ends the method; resolved, the loop goes on to the next session.
AfterUpdateLoginSession ==
  /\ task.pc = "updating"
  /\ \E ok \in BOOLEAN :
       LET s == Head(task.sessions)
           updated == FB_updateLoginSession(fb, s.id, now, now - s.loginTime)
           rest == Tail(task.sessions)
       IN IF ~ok \/ ~updated.ok
          THEN /\ EndLocally(task.userId, TRUE)
               /\ UNCHANGED fb
          ELSE /\ fb' = updated.fb
               /\ IF rest = <<>> THEN EndLocally(task.userId, FALSE)
                  ELSE /\ task' = EndingTask("updating", task.userId, rest)
                       /\ last' = EndStep("updateLoginSession", task.userId, FALSE)
                       /\ UNCHANGED lsData
  /\ UNCHANGED <<isOnline, useFirebase, lsPasswords, lsCurrentUser, lsLastSync, user,
                 now, registered>>

\* ---- syncWhenOnline, await by await
\* A syncToLocal that is running: pc "fetching" while the five reads of
\* Promise.all are awaited, "fetched" when they have been answered with
\* `fetched` and the continuation that stores them has not run yet.
SyncTask(pc, fetched) == [pc |-> pc, fetched |-> fetched]

\* window 'online': isOnline = true; syncWhenOnline() starts syncToLocal when
\* useFirebase holds.
BeginSyncWhenOnline ==
  /\ ~isOnline
  /\ task.pc = "idle"
  /\ isOnline' = TRUE
  /\ task' = IF useFirebase THEN SyncTask("fetching", FB_fetchAll(FbEmpty)) ELSE task
  /\ last' = Op("online", "", NoId, TRUE, Quiet)
  /\ UNCHANGED <<useFirebase, lsData, lsPasswords, lsCurrentUser, lsLastSync, user,
                 fb, now, registered>>

\* The remote store answers the five reads, or one of them is rejected:
\* syncToLocal rethrows and syncWhenOnline logs it.
SyncFetched ==
  /\ task.pc = "fetching"
  /\ \E ok \in BOOLEAN :
       IF ok
       THEN /\ task' = SyncTask("fetched", FB_fetchAll(fb))
            /\ last' = Op("fetchAll", "", NoId, TRUE, Quiet)
       ELSE /\ task' = IdleTask
            /\ last' = [Op("syncToLocal", "", NoId, FALSE, Quiet) EXCEPT !.failed = TRUE]
  /\ UNCHANGED <<isOnline, useFirebase, lsData, lsPasswords, lsCurrentUser,
                 lsLastSync, user, fb, now, registered>>

\* The continuation of Promise.all: the two localStorage.setItem calls.
SyncStored ==
  /\ task.pc = "fetched"
  /\ lsData' = DS_saveData(task.fetched)
  /\ lsLastSync' = now
  /\ task' = IdleTask
  /\ last' = Op("syncToLocal", "", NoId, TRUE, Quiet)
  /\ UNCHANGED <<isOnline, useFirebase, lsPasswords, lsCurrentUser, user, fb, now,
                 registered>>

\* ---- the synchronous calls the facade hands to dataService
\* The stored items a page can start with: none, a text that does not parse,
\* or a snapshot with up to MaxSessions login sessions of the administrator,
\* each still active or closed after 0 ms, 20 s or 125 s.
MaxSessions == 2

SessionSamples ==
  {[id |-> <<"session", 1>>, userId |-> AdminId, userEmail |-> AdminEmail,
    loginTime |-> 1, logoutTime |-> 0, sessionDuration |-> 0, isActive |-> TRUE]}
  \cup {[id |-> <<"session", 1>>, userId |-> AdminId, userEmail |-> AdminEmail,
         loginTime |-> 1, logoutTime |-> 1 + d, sessionDuration |-> d,
         isActive |-> FALSE] : d \in {0, 20000, 125000}}

StoredItems ==
  {[tag |-> "none", val |-> getDefaultData], [tag |-> "corrupt", val |-> getDefaultData]}
  \cup {DS_saveData([getDefaultData EXCEPT !.loginSessions = sessions]) :
          sessions \in UNION {[1..n -> SessionSamples] : n \in 0..MaxSessions}}

InitStorage ==
  /\ isOnline = FALSE
  /\ useFirebase = TRUE
  /\ lsData \in StoredItems
  /\ lsPasswords = [e \in Emails |-> NoPassword]
  /\ lsCurrentUser = NoMarker
  /\ lsLastSync = 0
  /\ user = Null
  /\ fb = FbEmpty
  /\ now = 1
  /\ task = StartInit(isOnline)
  /\ last = NoOp
  /\ registered = {}

\* A call that dataService answers alone.
LocalCall(name, call) ==
  Read(name, "", NoId, [Quiet EXCEPT !.ret = call.ret, !.threw = call.threw])

GetData == LocalCall("getData", DS_getDataCall(lsData))

GetLoginSessions == LocalCall("getLoginSessions", DS_getLoginSessions(lsData))

ExportLoginSessionsCSV ==
  LocalCall("exportLoginSessionsCSV", DS_exportLoginSessionsCSV(lsData))

\* ------------------------------------------------------- specifications
Network ==
  \/ GoOnline
  \/ GoOffline
  \/ \E down \in 1..3 : InitializeFirebase(down)
  \/ Reload

Accounts ==
  \/ \E email \in Emails, password \in Passwords : Login(email, password)
  \/ \E email \in Emails, password \in RegisterPasswords : Register(email, password)
  \/ Logout
  \/ \E email \in Emails, password \in ChangedPasswords :
       SetUserPassword(email, password)

Lending ==
  \/ \E email \in Emails : GetUser(email)
  \/ GetComponents
  \/ GetRequests
  \/ \E userId \in UserIds : GetUserRequests(userId)
  \/ \E userId \in UserIds : GetUserNotifications(userId)
  \/ \E email \in Emails : UpdateUser(email)
  \/ AddComponent
  \/ UpdateComponent
  \/ \E userId \in UserIds : AddRequest(userId)
  \/ UpdateRequest
  \/ \E userId \in UserIds : AddNotification(userId)
  \/ \E userId \in UserIds : MarkNotificationAsRead(userId)

\* The account flows of AuthContext over the service.
Next == Network \/ Accounts

Spec == Init /\ [][Next]_vars

\* The screens' direct calls of the facade.
NextLending == Network \/ Lending

SpecLending == Init /\ [][NextLending]_vars

\* The session calls of the facade under connectivity changes.
Sessions ==
  \/ CreateLoginSession
  \/ \E userId \in UserIds : BeginEndLoginSession(userId)
  \/ AfterGetAllLoginSessions
  \/ AfterUpdateLoginSession

NextSessions ==
  \/ GoOnline
  \/ GoOffline
  \/ \E down \in 1..3 : InitializeFirebase(down)
  \/ Sessions

SpecSessions == Init /\ [][NextSessions]_vars

\* The local reads of the facade over every stored item.
NextStorage ==
  \/ GetData
  \/ GetLoginSessions
  \/ ExportLoginSessionsCSV

SpecStorage == InitStorage /\ [][NextStorage]_vars

\* Logins, logouts and session calls on a page whose Local Store already
\* holds sessions of earlier visits.
NextHistory ==
  \/ GoOnline
  \/ GoOffline
  \/ \E email \in Emails, password \in Passwords : Login(email, password)
  \/ Logout
  \/ Sessions

SpecHistory == InitStorage /\ [][NextHistory]_vars

\* Requests added while a resync may be running.
NextResync ==
  \/ BeginSyncWhenOnline
  \/ SyncFetched
  \/ SyncStored
  \/ GoOffline
  \/ \E down \in 1..3 : InitializeFirebase(down)
  \/ \E userId \in UserIds : AddRequest(userId)

SpecResync == Init /\ [][NextResync]_vars

\* The user calls and the add calls of the facade.
NextUsers ==
  \/ GoOnline
  \/ GoOffline
  \/ \E down \in 1..3 : InitializeFirebase(down)
  \/ \E email \in Emails : AddUser(email)
  \/ \E email \in Emails : GetUser(email)
  \/ \E email \in Emails : UpdateUser(email)
  \/ AddComponent
  \/ \E userId \in UserIds : AddRequest(userId)
  \/ \E userId \in UserIds : AddNotification(userId)

SpecUsers == Init /\ [][NextUsers]_vars

\* ----------------------------------------------------------------- claims
InSeq(seq, x) == \E i \in DOMAIN seq : seq[i] = x

\* The step is a call of the caller-level operation `name` returning.
Returns(name) == last'.op = name /\ now' = now + 1

\* C1: once a facade write has returned, the Local Store snapshot holds what
\* was written (the entity as the facade left it; for markNotificationAsRead
\* the notification with read = true), whatever the remote write did.
C1_WriteReflectedLocally ==
  LET data == DS_getData(lsData)
  IN /\ last.op = "updateUser" => InSeq(data.users, last.ret)
     /\ last.op \in {"addComponent", "updateComponent"}
          => InSeq(data.components, last.ret)
     /\ last.op \in {"addRequest", "updateRequest"}
          => InSeq(data.requests, last.ret)
     /\ last.op = "addNotification" => InSeq(data.notifications, last.ret)
     /\ last.op = "markNotificationAsRead"
          => \E i \in DOMAIN data.notifications :
               data.notifications[i].id = last.ret /\ data.notifications[i].read

\* C2: a rejected remote call inside a facade operation (getUser, addUser,
\* updateUser, authenticateUser, createLoginSession, endLoginSession,
\* addNotification, as login, register, logout and the mount effect call
\* them) never raises to the caller: the operation returns, and what it
\* returns is not the remote store's answer.
C2_RemoteFailureNeverRaises ==
  last.op \in {"login", "register", "logout", "reload"}
    => /\ ~last.threw
       /\ last.failed => ~last.remote

C2_FailedRemoteLoginServedLocally ==
  /\ last.op = "login"
  /\ last.failed
  /\ ~last.threw
  /\ last.ok

\* C3: a facade read (getUser, getComponents, getRequests, getUserRequests,
\* getUserNotifications) whose remote read is rejected, or finds no document
\* for the query, or is not made, returns what Local Store holds for that
\* query.
C3_ReadFallsBackToLocal ==
  LET data == DS_getData(lsData)
      HasEmail(d) == d.data.email = last.email
      LocalHasEmail(u) == u.email = last.email
      RemoteRequest(d) == d.data.studentId = last.id
      LocalRequest(r) == r.studentId = last.id
      RemoteNotification(d) == d.data.userId = last.id
      LocalNotification(n) == n.userId = last.id
      localUsers == SelectSeq(data.users, LocalHasEmail)
      NoRemote(found) == ~Rem \/ last.failed \/ found = <<>>
  IN /\ last.op = "getUser" /\ NoRemote(SelectSeq(fb.users, HasEmail))
          => last.ret = IF localUsers = <<>> THEN Null ELSE Some(Head(localUsers))
     /\ last.op = "getComponents" /\ NoRemote(fb.components)
          => last.ret = data.components
     /\ last.op = "getRequests" /\ NoRemote(fb.requests)
          => last.ret = data.requests
     /\ last.op = "getUserRequests" /\ NoRemote(SelectSeq(fb.requests, RemoteRequest))
          => last.ret = SelectSeq(data.requests, LocalRequest)
     /\ last.op = "getUserNotifications"
          /\ NoRemote(SelectSeq(fb.notifications, RemoteNotification))
          => last.ret = SelectSeq(data.notifications, LocalNotification)

\* Online and enabled, the remote store has no request of the user, and the
\* read returned the request Local Store holds.
C3_EmptyRemoteReadServedLocally ==
  /\ last.op = "getUserRequests"
  /\ Rem
  /\ ~last.failed
  /\ fb.requests = <<>>
  /\ last.ret # <<>>

\* C4: online and enabled, a facade read whose remote read finds something
\* returns exactly the remote result, with no Local Store record added.
C4_RemoteReadReturnedAsIs ==
  LET found == Rem /\ ~last.failed
  IN /\ last.op = "getUser" /\ found /\ IsSome(FB_getUserByEmail(fb, last.email).ret)
          => last.remote /\ last.ret = FB_getUserByEmail(fb, last.email).ret
     /\ last.op = "getComponents" /\ found /\ FB_getAllComponents(fb) # <<>>
          => last.remote /\ last.ret = FB_getAllComponents(fb)
     /\ last.op = "getRequests" /\ found /\ FB_getAllRequests(fb) # <<>>
          => last.remote /\ last.ret = FB_getAllRequests(fb)
     /\ last.op = "getUserRequests" /\ found /\ FB_getUserRequests(fb, last.id) # <<>>
          => last.remote /\ last.ret = FB_getUserRequests(fb, last.id)
     /\ last.op = "getUserNotifications" /\ found
          /\ FB_getUserNotifications(fb, last.id) # <<>>
          => last.remote /\ last.ret = FB_getUserNotifications(fb, last.id)

\* The remote list was returned while Local Store holds a component that is
\* not in it.
C4_LocalRecordLeftOut ==
  /\ last.op = "getComponents"
  /\ last.remote
  /\ \E i \in DOMAIN DS_getData(lsData).components :
       ~InSeq(last.ret, DS_getData(lsData).components[i])

\* C5: authenticateUser returns the remote identity (and mirrors it into
\* Local Store) only when it is online and enabled and both the remote
\* sign-in and the remote profile fetch succeed; in every other case its
\* result, and what it leaves in Local Store, is exactly that of Local
\* Store's own credential verification.
C5_RemoteIdentityOnlyOnFullSuccess ==
  [][Returns("login") =>
       LET email == last'.email
           password == last'.password
           signedIn == fb.auth[email] # NoPassword /\ fb.auth[email] = password
           profile == FB_getUserByEmail(fb, email).ret
           local == DS_authenticateUser(lsData, lsPasswords, email, password, now)
       IN IF last'.remote
          THEN /\ Rem /\ signedIn /\ IsSome(profile) /\ ~last'.failed
               /\ last'.ret = profile
               /\ lsData' = DS_updateUser(lsData, Val(profile))
               /\ lsPasswords' = lsPasswords
          ELSE /\ ~Rem \/ last'.failed \/ ~signedIn \/ ~IsSome(profile)
               /\ last'.ret = local.ret
               /\ lsData' = local.ls
               /\ lsPasswords' = local.pw]_vars

\* The remote sign-in would succeed and the profile exists, the profile fetch
\* was rejected, and the login was decided by Local Store.
C5_ProfileFetchFailedLocalLogin ==
  /\ last.op = "login"
  /\ Rem
  /\ fb.auth[last.email] = last.password
  /\ IsSome(FB_getUserByEmail(fb, last.email).ret)
  /\ last.failed
  /\ ~last.remote
  /\ last.ok

\* C6: authenticate(admin, "ralab") succeeds while no credential is stored for
\* the admin email; once the stored credential is a value other than "ralab",
\* authenticating with "ralab" fails.
C6_OldAdminPasswordRejected ==
  [][Returns("login") /\ last'.email = AdminEmail
       /\ last'.password = DefaultAdminPassword =>
         /\ lsPasswords[AdminEmail] = NoPassword => last'.ok
         /\ lsPasswords[AdminEmail] \notin {NoPassword, DefaultAdminPassword}
              => ~last'.ok]_vars

\* C7: register(email) for an email whose registration has succeeded before
\* returns false and creates no user record, locally or remotely.
C7_SecondRegistrationRefused ==
  [][Returns("register") /\ last'.email \in registered =>
       /\ ~last'.ok
       /\ DS_getData(lsData').users = DS_getData(lsData).users
       /\ fb'.users = fb.users]_vars

\* C8: a login that succeeds creates exactly one new LoginSession of the user
\* with isActive = true (counted over Local Store and the remote store).
C8_LoginCreatesOneActiveSession ==
  [][Returns("login") /\ last'.ok =>
       LET u == Val(last'.ret)
           old == DS_getData(lsData).loginSessions
           new == DS_getData(lsData').loginSessions
           remoteOld == fb.loginSessions
           remoteNew == fb'.loginSessions
           created == {i \in DOMAIN new :
                         /\ ~InSeq(old, new[i])
                         /\ new[i].userId = u.id /\ new[i].isActive}
           remoteCreated == {i \in DOMAIN remoteNew :
                               /\ ~InSeq(remoteOld, remoteNew[i])
                               /\ remoteNew[i].data.userId = u.id
                               /\ remoteNew[i].data.isActive}
       IN Cardinality(created) + Cardinality(remoteCreated) = 1]_vars

\* C9: when logout of user u returns, every LoginSession of u that was active
\* in Local Store is closed there (isActive = false, logoutTime set,
\* sessionDuration = logoutTime - loginTime) and getSystemStats().onlineUsers
\* no longer counts it, whatever the remote calls did.
C9_LogoutClosesLocalSessions ==
  [][Returns("logout") /\ IsSome(user) =>
       LET uid == Val(user).id
           old == DS_getData(lsData).loginSessions
           new == DS_getData(lsData').loginSessions
           wasActive == {i \in DOMAIN old : old[i].userId = uid /\ old[i].isActive}
       IN /\ Len(new) = Len(old)
          /\ \A i \in wasActive :
               /\ ~new[i].isActive
               /\ new[i].logoutTime = now
               /\ new[i].sessionDuration = new[i].logoutTime - new[i].loginTime
          /\ DS_getSystemStats(lsData').onlineUsers
               = DS_getSystemStats(lsData).onlineUsers - Cardinality(wasActive)]_vars

\* A remote call of the logout was rejected and the user's session is closed
\* in Local Store.
C9_SessionClosedAfterRemoteFailure ==
  /\ last.op = "logout"
  /\ last.failed
  /\ \E i \in DOMAIN DS_getData(lsData).loginSessions :
       LET s == DS_getData(lsData).loginSessions[i]
       IN s.userId = last.id /\ ~s.isActive /\ s.logoutTime > s.loginTime

\* C10: an offline -> online transition with useFirebase true makes exactly
\* one call of syncToLocal, raises nothing to the host, and leaves
\* useFirebase as it was, also when the sync fails.
C10_ResyncOnceOnReconnect ==
  [][~isOnline /\ isOnline' /\ useFirebase =>
       /\ last'.op = "online"
       /\ last'.attempts = 1
       /\ ~last'.threw
       /\ useFirebase' = useFirebase]_vars

\* The one resync attempt failed and useFirebase is still true.
C10_FailedResyncKeepsRemoteEnabled ==
  /\ last.op = "online"
  /\ last.attempts = 1
  /\ last.failed
  /\ useFirebase

\* C11: a failure of the start-up seeding or of the start-up resync sets
\* useFirebase to false, and while useFirebase stays false no operation
\* reaches the remote store: the remote store does not change.
C11_NoRemoteCallOnceDisabled ==
  [][/\ (task.pc = "init" /\ last'.op = "initializeFirebase" /\ last'.failed)
          => ~useFirebase'
     /\ (~useFirebase /\ ~useFirebase') => fb' = fb]_vars

\* C12: within one process useFirebase never goes from false to true (only a
\* page reload, which constructs the service anew, starts with true again),
\* and it goes from true to false only in a failed initializeFirebase.
C12_RemoteEnabledMonotone ==
  [][/\ (~useFirebase /\ useFirebase') => last'.op = "reload"
     /\ (useFirebase /\ ~useFirebase')
          => task.pc = "init" /\ last'.op = "initializeFirebase" /\ last'.failed]_vars

\* The browser came back online while useFirebase was false, and it is still
\* false.
C12_StillDisabledAfterReconnect ==
  /\ last.op = "online"
  /\ ~useFirebase
  /\ isOnline

\* C13: a remote call of a facade operation is issued only while isOnline and
\* useFirebase both hold at that moment, also inside an endLoginSession that
\* is already running.
C13_RemoteCallsOnlyWhileOnline ==
  last.op \in {"getAllLoginSessions", "updateLoginSession"}
    => isOnline /\ useFirebase

\* C18: when createLoginSession runs with the remote store in use and its
\* remote write succeeds, Local Store holds a session whose id is the id of
\* the session the call returned (the remote-assigned id).
C18_LocalSessionCarriesRemoteId ==
  (last.op = "createLoginSession" /\ Rem /\ ~last.failed)
    => \E i \in DOMAIN DS_getData(lsData).loginSessions :
         DS_getData(lsData).loginSessions[i].id = last.ret.id

C17_CsvDurationColumn ==
  last.op = "exportLoginSessionsCSV"
    => LET sessions == DS_getData(lsData).loginSessions
           csv == last.ret
       IN /\ Len(csv) = 1 + Len(sessions)
          /\ \A i \in DOMAIN sessions :
               /\ sessions[i].isActive <=> csv[i + 1][7] = "Active"
               /\ ~sessions[i].isActive
                    => csv[i + 1][7]
                         = ToString(MathRound(sessions[i].sessionDuration, MsPerMinute))

\* Credentials that nothing accepts: the password is not the one of the remote
\* account, and it is not the stored credential of a user Local Store holds
\* (for the administrator: not the stored credential, or not the default one
\* while none is stored).
BadCredentials(email, password) ==
  /\ fb.auth[email] # password
  /\ IF email = AdminEmail
     THEN password # (IF lsPasswords[AdminEmail] = NoPassword
                      THEN DefaultAdminPassword ELSE lsPasswords[AdminEmail])
     ELSE ~(IsSome(DS_getUser(lsData, email)) /\ lsPasswords[email] = password)

\* C15: login never throws; with bad credentials it returns false and leaves
\* the stored snapshot, the stored passwords and the currentUser marker as
\* they were; the marker is written exactly when login returns true.
C15_BadLoginRefused ==
  [][Returns("login") =>
       /\ ~last'.threw
       /\ BadCredentials(last'.email, last'.password)
            => /\ ~last'.ok
               /\ lsData' = lsData
               /\ lsPasswords' = lsPasswords
               /\ lsCurrentUser' = lsCurrentUser
       /\ ~last'.ok => lsCurrentUser' = lsCurrentUser
       /\ last'.ok => lsCurrentUser' = Marker(Val(last'.ret))]_vars

\* C16: initializeDefaultData run again on the store it has left gives the
\* same users and components as the one run, and a run of initializeFirebase
\* leaves the remote store either as it was (the seeding failed) or with the
\* whole seed: never with a part of it.
C16_SeedingIdempotent ==
  [][(task.pc = "init" /\ last'.op = "initializeFirebase") =>
       LET once == FB_initializeDefaultData(fb)
           twice == FB_initializeDefaultData(once)
       IN /\ twice.users = once.users
          /\ twice.components = once.components
          /\ fb' \in {fb, once}
          /\ last'.ok => fb' = once]_vars

\* A run over a store that was seeded before a student registered.
C16_SeededStoreSeededAgain ==
  /\ last.op = "initializeFirebase"
  /\ last.ok
  /\ Len(fb.users) = 2
  /\ fb.users[1].data.email = AdminEmail
  /\ fb.users[2].data.email = StudentEmail
  /\ Len(fb.components) = Len(SeedComponents)

\* C19: after a registration that returned true, the user record of that
\* email in Local Store and the currentUser marker have role student,
\* loginCount 1 and isActive true, and Local Store holds one login session of
\* the user, the password given and one notification for the user.
C19_RegisteredUserDefaults ==
  [][(Returns("register") /\ last'.ok) =>
       LET data == DS_getData(lsData')
           found == DS_getUser(lsData', last'.email)
           marked == lsCurrentUser'.val
           Mine(x) == x.userId = marked.id
       IN /\ IsSome(found)
          /\ Val(found).role = "student"
          /\ Val(found).loginCount = 1
          /\ Val(found).isActive
          /\ lsCurrentUser'.tag = "ok"
          /\ marked.email = last'.email
          /\ marked.role = "student"
          /\ marked.loginCount = 1
          /\ marked.isActive
          /\ Len(SelectSeq(data.loginSessions, Mine)) = 1
          /\ lsPasswords'[last'.email] = last'.password
          /\ Len(SelectSeq(data.notifications, Mine)) = 1]_vars

\* C20: a login with the administrator's email while no password is stored
\* for it stores the default password: afterwards the stored passwords have
\* an entry for the administrator.
C20_DefaultAdminPasswordStored ==
  [][(Returns("login") /\ last'.email = AdminEmail /\ last'.ok
        /\ lsPasswords[AdminEmail] = NoPassword)
       => lsPasswords'[AdminEmail] = DefaultAdminPassword]_vars

\* C21: a login that returns true leaves the user's record in Local Store
\* with loginCount one higher than before, lastLoginAt set to the time of the
\* login and isActive true, whether the remote sign-in or the local check let
\* the user in.
C21_LoginUpdatesLocalUser ==
  [][(Returns("login") /\ last'.ok) =>
       LET before == DS_getUser(lsData, last'.email)
           after == DS_getUser(lsData', last'.email)
           count == IF IsSome(before) THEN Val(before).loginCount ELSE 0
       IN /\ IsSome(after)
          /\ Val(after).loginCount = count + 1
          /\ Val(after).lastLoginAt = now
          /\ Val(after).isActive]_vars

\* C22: a login, a logout or a session call of the facade leaves every login
\* session of Local Store that is already closed (isActive = false) exactly as
\* it is: isActive, logoutTime and sessionDuration do not change again.
C22_ClosedSessionNeverChanges ==
  [][last'.op \in {"login", "logout", "createLoginSession", "getAllLoginSessions",
                   "updateLoginSession", "endLoginSession"} =>
       LET old == DS_getData(lsData).loginSessions
           new == DS_getData(lsData').loginSessions
       IN \A i \in DOMAIN old :
            ~old[i].isActive
              => /\ i \in DOMAIN new
                 /\ new[i].id = old[i].id
                 /\ ~new[i].isActive
                 /\ new[i].logoutTime = old[i].logoutTime
                 /\ new[i].sessionDuration = old[i].sessionDuration]_vars

\* A logout has closed a session while Local Store held a session closed at
\* another time.
C22_ClosedBesideEarlierClosed ==
  /\ last.op = "logout"
  /\ last.ok
  /\ \E i, j \in DOMAIN DS_getData(lsData).loginSessions :
       LET s == DS_getData(lsData).loginSessions
       IN /\ ~s[i].isActive /\ s[i].logoutTime = now - 1
          /\ ~s[j].isActive /\ s[j].logoutTime # now - 1
          /\ s[j].userId = s[i].userId

\* C23: a user that register has written to Local Store is in Local Store in
\* every later state, whatever operations, remote failures and connectivity
\* changes follow.
C23_WrittenUserStaysInLocalStore ==
  \A email \in registered : IsSome(DS_getUser(lsData, email))

\* C24: after a resync that succeeded, each of the five collections of Local
\* Store is the remote collection as fetched and lastFirebaseSync is the time
\* of the resync; the remote store and the stored passwords are as before.
C24_ResyncCopiesRemoteToLocal ==
  [][(last'.op = "online" /\ last'.attempts = 1 /\ ~last'.failed) =>
       LET data == lsData'.val
       IN /\ lsData'.tag = "ok"
          /\ data.users = FB_getAllUsers(fb)
          /\ data.components = FB_getAllComponents(fb)
          /\ data.requests = FB_getAllRequests(fb)
          /\ data.notifications = FbDocs(fb.notifications)
          /\ data.loginSessions = FB_getAllLoginSessions(fb)
          /\ lsLastSync' = now
          /\ fb' = fb
          /\ lsPasswords' = lsPasswords]_vars

\* A resync has replaced a snapshot that held a registered user by the users
\* of the remote store.
C24_LocalReplacedByRemote ==
  /\ last.op = "online"
  /\ last.attempts = 1
  /\ ~last.failed
  /\ lsLastSync = now
  /\ Len(fb.users) >= 1
  /\ DS_getData(lsData).users = FB_getAllUsers(fb)
  /\ \E email \in registered : ~IsSome(DS_getUser(lsData, email))

\* C25: on a page load, a stored currentUser marker that parses becomes the
\* current user and the record of that email in Local Store has isActive true
\* afterwards; a marker that does not parse is removed and the current user
\* stays null; no exception escapes.
C25_StartupRestoresMarker ==
  [][last'.op = "reload" =>
       /\ ~last'.threw
       /\ lsCurrentUser.tag = "ok" =>
            /\ user' = Some(lsCurrentUser.val)
            /\ IsSome(DS_getUser(lsData, lsCurrentUser.val.email))
                 => /\ IsSome(DS_getUser(lsData', lsCurrentUser.val.email))
                    /\ Val(DS_getUser(lsData', lsCurrentUser.val.email)).isActive
       /\ lsCurrentUser.tag = "corrupt" =>
            /\ user' = Null
            /\ lsCurrentUser' = NoMarker]_vars

\* C26: when a resync stores what it fetched, every request of Local Store
\* that the remote store holds too (its remote create succeeded) is in Local
\* Store afterwards, also when it was added after the resync had fetched.
C26_WriteDuringResyncKept ==
  [][(task.pc = "fetched" /\ last'.op = "syncToLocal" /\ ~last'.failed) =>
       LET old == DS_getData(lsData).requests
           new == DS_getData(lsData').requests
       IN \A i \in DOMAIN old :
            \A k \in DOMAIN fb.requests :
              fb.requests[k].doc = old[i].id
                => \E j \in DOMAIN new : new[j] = FbRead(fb.requests[k])]_vars

\* What an add call leaves in Local Store: `after` is `before` with one record
\* appended.
OneAppended(before, after) ==
  /\ Len(after) = Len(before) + 1
  /\ SubSeq(after, 1, Len(before)) = before

\* C27: addUser, addComponent, addRequest and addNotification each append
\* exactly one record to their own collection of Local Store and leave the
\* other collections as they were, whether the remote create succeeded, was
\* rejected or was not tried.
C27_AddAppendsOneRecord ==
  [][(now' = now + 1
        /\ last'.op \in {"addUser", "addComponent", "addRequest", "addNotification"}) =>
       LET old == DS_getData(lsData)
           new == DS_getData(lsData')
           Kept(own, before, after) ==
             IF last'.op = own THEN OneAppended(before, after) ELSE after = before
       IN /\ Kept("addUser", old.users, new.users)
          /\ Kept("addComponent", old.components, new.components)
          /\ Kept("addRequest", old.requests, new.requests)
          /\ Kept("addNotification", old.notifications, new.notifications)
          /\ new.loginSessions = old.loginSessions]_vars

\* An addRequest whose remote create was rejected has left one request.
C27_OneRequestAfterRemoteFailure ==
  /\ last.op = "addRequest"
  /\ last.failed
  /\ Len(DS_getData(lsData).requests) = 1
  /\ Len(fb.requests) = 0

\* The local record of `email` was created by addUser with a successful remote
\* create: its id is the id of the remote document of that email.
CreatedRemotely(email) ==
  /\ IsSome(DS_getUser(lsData, email))
  /\ \E k \in DOMAIN fb.users :
       /\ fb.users[k].data.email = email
       /\ fb.users[k].doc = Val(DS_getUser(lsData, email)).id

\* C28: for a user that addUser created online with a successful remote
\* write, the user a later getUser reads from the remote store has the id of
\* the user's record in Local Store, and an updateUser of the user that was
\* read changes that record.
C28_RemoteUserHasLocalId ==
  [][(now' = now + 1 /\ last'.op \in {"getUser", "updateUser"}) =>
       /\ (last'.op = "getUser" /\ last'.remote /\ CreatedRemotely(last'.email))
            => Val(last'.ret).id = Val(DS_getUser(lsData, last'.email)).id
       /\ (last'.op = "updateUser" /\ Rem /\ CreatedRemotely(last'.ret.email))
            => InSeq(DS_getData(lsData').users, last'.ret)]_vars

\* C29: in every state of Local Store, a user has isActive = true exactly when
\* a login session with the user's id has isActive = true.
C29_ActiveUserHasActiveSession ==
  LET data == DS_getData(lsData)
  IN \A i \in DOMAIN data.users :
       data.users[i].isActive
         <=> \E j \in DOMAIN data.loginSessions :
               /\ data.loginSessions[j].userId = data.users[i].id
               /\ data.loginSessions[j].isActive

\* C30: a resync whose fetch was rejected, on reconnect or at start-up, leaves
\* the stored snapshot and lastFirebaseSync exactly as they were.
C30_FailedResyncWritesNothing ==
  [][((last'.op = "online" /\ last'.attempts = 1 /\ last'.failed)
        \/ (task.pc = "init" /\ last'.op = "initializeFirebase" /\ last'.failed)) =>
       /\ lsData' = lsData
       /\ lsLastSync' = lsLastSync]_vars

\* A resync has failed while Local Store held a user the remote store lacks.
C30_ResyncFailedOverLocalUser ==
  /\ last.op = "online"
  /\ last.attempts = 1
  /\ last.failed
  /\ lsLastSync = 0
  /\ \E email \in registered :
       /\ IsSome(DS_getUser(lsData, email))
       /\ ~IsSome(FB_getUserByEmail(fb, email).ret)

====
